---- MODULE Spec2Model ----
(***************************************************************************)
(* cf-lvl: the candidate selection engine.                                 *)
(*                                                                         *)
(* One invocation of an entry point (codeforces.rs run_level / run_index,  *)
(* main.rs run_codeforces, atcoder.rs run): the axis argument is checked,  *)
(* the remote collections are fetched one after another, and one problem   *)
(* is selected in memory.  The remote servers are the environment: every   *)
(* fetch draws its response from a bounded set of responses.               *)
(***************************************************************************)
EXTENDS Integers, Sequences, FiniteSets, Bags, TLC

----------------------------------------------------------------------------
(* Bounds of the model. *)

\* longest problem list, or contest list, a response carries
MaxCat == 2
\* longest submission list a Codeforces user.status response carries
MaxSubs == 1
\* longest page of submissions the AtCoder submissions endpoint serves
MaxPage == 2
\* largest epoch_second a submission carries
MaxTs == 3

----------------------------------------------------------------------------
(* Option<T>: a set with at most one element. *)

None == {}

Some(x) == {x}

Unwrap(o) == CHOOSE x \in o : TRUE

\* Result<T, E>
Ok(v) == [ok |-> TRUE, value |-> v]

Err == [ok |-> FALSE, value |-> <<>>]

----------------------------------------------------------------------------
(* Characters and strings.  A string is a sequence of characters, a        *)
(* character is a one-letter TLA+ string; Code is its ASCII code, which    *)
(* decides case mapping, the character classes and the ordering of         *)
(* strings.                                                                *)

Chars ==
    {" ", "+", ".", "0", "1", "2", "3", "4", "5", "6", "7", "8", "9",
     "A", "B", "C", "D", "I", "R", "V", "X", "_",
     "a", "b", "c", "d", "i", "r", "v", "x"}

Code(c) ==
    CASE c = " " -> 32 [] c = "+" -> 43 [] c = "." -> 46
      [] c = "0" -> 48 [] c = "1" -> 49 [] c = "2" -> 50 [] c = "3" -> 51
      [] c = "4" -> 52 [] c = "5" -> 53 [] c = "6" -> 54 [] c = "7" -> 55
      [] c = "8" -> 56 [] c = "9" -> 57
      [] c = "A" -> 65 [] c = "B" -> 66 [] c = "C" -> 67 [] c = "D" -> 68
      [] c = "I" -> 73 [] c = "R" -> 82 [] c = "V" -> 86 [] c = "X" -> 88
      [] c = "_" -> 95
      [] c = "a" -> 97 [] c = "b" -> 98 [] c = "c" -> 99 [] c = "d" -> 100
      [] c = "i" -> 105 [] c = "r" -> 114 [] c = "v" -> 118 [] c = "x" -> 120

Chr(n) == CHOOSE c \in Chars : Code(c) = n

is_ascii_alphabetic(c) == Code(c) \in (65..90) \cup (97..122)

is_ascii_digit(c) == Code(c) \in 48..57

is_whitespace(c) == c = " "

to_ascii_uppercase(c) == IF Code(c) \in 97..122 THEN Chr(Code(c) - 32) ELSE c

to_ascii_lowercase(c) == IF Code(c) \in 65..90 THEN Chr(Code(c) + 32) ELSE c

\* str::to_ascii_lowercase / to_lowercase on an ASCII string
str_to_lowercase(s) == [i \in 1..Len(s) |-> to_ascii_lowercase(s[i])]

\* str::trim: leading and trailing whitespace removed
RECURSIVE trim_start(_)
trim_start(s) ==
    IF s # <<>> /\ is_whitespace(Head(s)) THEN trim_start(Tail(s)) ELSE s

RECURSIVE trim_end(_)
trim_end(s) ==
    IF s # <<>> /\ is_whitespace(s[Len(s)])
    THEN trim_end(SubSeq(s, 1, Len(s) - 1))
    ELSE s

trim(s) == trim_end(trim_start(s))

\* str::starts_with
starts_with(s, prefix) ==
    /\ Len(prefix) <= Len(s)
    /\ SubSeq(s, 1, Len(prefix)) = prefix

\* str::contains
contains(s, pat) ==
    \E i \in 1..(Len(s) - Len(pat) + 1) : SubSeq(s, i, i + Len(pat) - 1) = pat

\* Ord for str: bytewise lexicographic order; -1 less, 0 equal, 1 greater
RECURSIVE str_cmp(_, _)
str_cmp(a, b) ==
    IF a = <<>> /\ b = <<>> THEN 0
    ELSE IF a = <<>> THEN -1
    ELSE IF b = <<>> THEN 1
    ELSE IF Code(Head(a)) < Code(Head(b)) THEN -1
    ELSE IF Code(Head(a)) > Code(Head(b)) THEN 1
    ELSE str_cmp(Tail(a), Tail(b))

\* str::trim_start_matches(|c| c.is_ascii_alphabetic())
RECURSIVE trim_start_alphabetic(_)
trim_start_alphabetic(s) ==
    IF s # <<>> /\ is_ascii_alphabetic(Head(s)) THEN trim_start_alphabetic(Tail(s)) ELSE s

\* the value of a string of decimal digits
RECURSIVE digits_value(_)
digits_value(ds) ==
    IF ds = <<>> THEN 0
    ELSE 10 * digits_value(SubSeq(ds, 1, Len(ds) - 1)) + (Code(ds[Len(ds)]) - 48)

RECURSIVE strip_zeros(_)
strip_zeros(ds) == IF ds # <<>> /\ Head(ds) = "0" THEN strip_zeros(Tail(ds)) ELSE ds

\* u32::MAX, in digits
U32_MAX_DIGITS == <<"4", "2", "9", "4", "9", "6", "7", "2", "9", "5">>

\* more than u32::MAX: more digits, or as many and a later string
exceeds_u32(ds) ==
    LET sig == strip_zeros(ds)
    IN  \/ Len(sig) > Len(U32_MAX_DIGITS)
        \/ Len(sig) = Len(U32_MAX_DIGITS) /\ str_cmp(sig, U32_MAX_DIGITS) > 0

\* str::parse::<u32>: an optional "+", then one or more digits, no overflow
parse_u32(s) ==
    LET ds == IF Len(s) > 1 /\ Head(s) = "+" THEN Tail(s) ELSE s
    IN  IF ds = <<>> THEN Err
        ELSE IF \E i \in 1..Len(ds) : ~is_ascii_digit(ds[i]) THEN Err
        ELSE IF exceeds_u32(ds) THEN Err
        ELSE Ok(digits_value(ds))

\* u32 ordering
u32_cmp(a, b) == IF a < b THEN -1 ELSE IF a > b THEN 1 ELSE 0

\* slice::sort_by, a stable sort: an element lands after every element that
\* compares less, and after the equal ones that came before it
\* (cmp[j, i] is the closure's result on s[j] and s[i])
sort_by(s, cmp) ==
    LET pos(i) == 1 + Cardinality({j \in 1..Len(s) : cmp[j, i] < 0})
                    + Cardinality({j \in 1..(i - 1) : cmp[j, i] = 0})
    IN  [k \in 1..Len(s) |-> s[CHOOSE i \in 1..Len(s) : pos(i) = k]]

\* Iterator::find: the first element that satisfies the test, if any
\* (test[i] is the closure's result on s[i])
find(s, test) ==
    LET hits == {i \in 1..Len(s) : test[i]}
    IN  IF hits = {} THEN None
        ELSE Some(s[CHOOSE i \in hits : \A j \in hits : i <= j])

\* every sequence over S of length at most n
SeqsUpTo(S, n) == UNION {[1..k -> S] : k \in 0..n}

----------------------------------------------------------------------------
(* What the servers may answer.  A response either never arrives           *)
(* (send_failed), or carries an HTTP status and a body; the body is text    *)
(* that is no JSON (invalid), a JSON scalar, a JSON array of values, a JSON *)
(* object whose members are values (entries: <<key, value>> in the order    *)
(* of the text), or, for Codeforces, the envelope {"result": ...}.          *)

HttpStatuses == {200, 503}

is_success(status) == status \in 200..299

Response(kind, status, items) == [kind |-> kind, status |-> status, items |-> items]

\* the responses whose body is not a collection
BrokenResponses ==
    {Response("send_failed", 0, <<>>)}
        \cup {Response(k, st, <<>>) : k \in {"invalid", "scalar"}, st \in HttpStatuses}

----------------------------------------------------------------------------
(* Codeforces (codeforces.rs, and the older single-file program main.rs).  *)

CUTOFF_TS == 1672531200

CfContestIds == {1, 2}

CfIndexKeys == {<<"A", "1">>, <<"b">>}

CfRatings == {800, 900}

\* a problem object of the API; contestId and rating may be missing
CfRawProblems ==
    [contestId : {Some(c) : c \in CfContestIds},
     index : CfIndexKeys,
     rating : {None} \cup {Some(r) : r \in CfRatings}]
        \cup {[contestId |-> None, index |-> <<"b">>, rating |-> None]}

DIV2 == <<"D", "i", "v", ".", " ", "2">>

DIV1 == <<"D", "i", "v", ".", " ", "1">>

CfContestNames == {DIV2, DIV1, DIV1 \o <<" ", "+", " ">> \o DIV2, <<"A", "B", "C">>}

\* a contest object of the API; startTimeSeconds may be missing
CfRawContests ==
    [id : CfContestIds,
     name : CfContestNames,
     startTimeSeconds : {None, Some(CUTOFF_TS - 1), Some(CUTOFF_TS)}]

\* a submission object of the API; the verdict may be missing
CfRawSubmissions ==
    [problem : CfRawProblems, verdict : {None, Some("OK"), Some("WRONG_ANSWER")}]

\* contest lists name a contest at most once, in the order of the ids
CfContestLists ==
    {l \in SeqsUpTo(CfRawContests, Cardinality(CfContestIds)) :
        \A i \in 1..(Len(l) - 1) : l[i].id < l[i + 1].id}

CfResponses(Lists) ==
    BrokenResponses \cup {Response("envelope", st, l) : st \in HttpStatuses, l \in Lists}

CfProblemSetResponses == CfResponses(SeqsUpTo(CfRawProblems, MaxCat))

CfContestListResponses == CfResponses(CfContestLists)

CfSubmissionResponses == CfResponses(SeqsUpTo(CfRawSubmissions, MaxSubs))

\* serde: UnratedProblem { contestId: u32, index, name, rating: Option<u32> }
decode_unrated_problem(raw) ==
    IF raw.contestId = None THEN Err
    ELSE Ok([contest_id |-> Unwrap(raw.contestId),
             index |-> raw.index,
             rating |-> raw.rating])

\* serde: Contest { id, name } (codeforces.rs), with start_time_seconds (main.rs)
decode_contest(raw) ==
    Ok([id |-> raw.id, name |-> raw.name, start_time_seconds |-> raw.startTimeSeconds])

\* serde: Submission { problem: UnratedProblem, verdict: Option<String> }
decode_submission(raw) ==
    LET p == decode_unrated_problem(raw.problem)
    IN  IF p.ok THEN Ok([problem |-> p.value, verdict |-> raw.verdict]) ELSE Err

\* serde on an element of the result, by the type T asked for
deserialize(T, raw) ==
    CASE T = "UnratedProblem" -> decode_unrated_problem(raw)
      [] T = "Contest" -> decode_contest(raw)
      [] T = "Submission" -> decode_submission(raw)

\* client.get(url).send()?.json()?: ApiResponse<Vec<T>>; the HTTP status is not read
json_envelope(resp, T) ==
    IF resp.kind # "envelope" THEN Err
    ELSE IF \E i \in 1..Len(resp.items) : ~deserialize(T, resp.items[i]).ok THEN Err
    ELSE Ok([i \in 1..Len(resp.items) |-> deserialize(T, resp.items[i]).value])

\* filter_map: the problems that carry a rating, as Problem
RatedProblems(unrated) ==
    LET rated == SelectSeq(unrated, LAMBDA u : u.rating # None)
    IN  [i \in 1..Len(rated) |->
            [contest_id |-> rated[i].contest_id,
             index |-> rated[i].index,
             rating |-> Unwrap(rated[i].rating)]]

fetch_problem_set(resp) ==
    LET r == json_envelope(resp, "UnratedProblem")
    IN  IF r.ok THEN Ok(RatedProblems(r.value)) ELSE Err

\* codeforces.rs: the ids of the Div. 2 only contests
IsDiv2Only(contest) == contains(contest.name, DIV2) /\ ~contains(contest.name, DIV1)

fetch_contests(resp) ==
    LET r == json_envelope(resp, "Contest")
    IN  IF r.ok
        THEN Ok({r.value[i].id : i \in {j \in 1..Len(r.value) : IsDiv2Only(r.value[j])}})
        ELSE Err

\* a slip in the cutoff test: <= for <
StartedByCutoff(start, cutoff_ts) == start # None /\ Unwrap(start) <= cutoff_ts

\* main.rs: also started before the cutoff; no start time, no eligibility
StartedBefore(start, cutoff_ts) == start # None /\ Unwrap(start) < cutoff_ts

main_fetch_contests(resp, cutoff_ts) ==
    LET r == json_envelope(resp, "Contest")
    IN  IF r.ok
        THEN Ok({r.value[i].id : i \in {j \in 1..Len(r.value) :
                    /\ IsDiv2Only(r.value[j])
                    /\ StartedBefore(r.value[j].start_time_seconds, cutoff_ts)}})
        ELSE Err

\* a slip in the verdict test: any verdict, for "OK"
JudgedRated(submission) ==
    submission.verdict # None /\ submission.problem.rating # None

\* the accepted submissions whose problem carries a rating, as a set of Problem
AcceptedRated(submission) ==
    submission.verdict = Some("OK") /\ submission.problem.rating # None

fetch_user_submissions(resp) ==
    LET r == json_envelope(resp, "Submission")
    IN  IF r.ok
        THEN Ok({[contest_id |-> r.value[i].problem.contest_id,
                  index |-> r.value[i].problem.index,
                  rating |-> Unwrap(r.value[i].problem.rating)] :
                    i \in {j \in 1..Len(r.value) : AcceptedRated(r.value[j])}})
        ELSE Err

\* passed_problems mapped to (contest_id, index)
SolvedPairs(passed_problems) == {<<p.contest_id, p.index>> : p \in passed_problems}

\* a slip in the rating test: at least the target rating, for exactly it
RatingAtLeast(p, target_rating) == p.rating >= target_rating

\* the filter tests of the selection loops
RatingMatches(p, target_rating) == p.rating = target_rating

\* a slip in the eligibility test: the test left out
EligibilitySkipped(contests, p) == TRUE

InContests(contests, p) == p.contest_id \in contests

\* a slip in the solved test: the test left out
SolvedCheckSkipped(solved_pairs, p) == FALSE

IsSolved(solved_pairs, p) == <<p.contest_id, p.index>> \in solved_pairs

\* a slip in the letter test: the whole index compared, for its first character
WholeIndexIsLetter(index, letter_char) ==
    Len(index) = 1 /\ to_ascii_uppercase(index[1]) = letter_char

\* a slip in the letter test: any index that is not empty
AnyLetter(index, letter_char) == index # <<>>

\* chars.next().map(|c| c.to_ascii_uppercase() == letter).unwrap_or(false)
starts_with_letter(index, letter_char) ==
    index # <<>> /\ to_ascii_uppercase(Head(index)) = letter_char

\* a slip in the guard of the match: the comparison turned round
KeepCurrentFlipped(cur, p) == cur.contest_id <= p.contest_id

\* match &best { Some(cur) if cur.contest_id >= p.contest_id => {}, _ => best = Some(p) }
KeepCurrent(cur, p) == cur.contest_id >= p.contest_id

\* the loop over the problems that pass the filter, best carried along
RECURSIVE latest(_, _)
latest(ps, cur_best) ==
    IF ps = <<>> THEN cur_best
    ELSE latest(Tail(ps),
                IF cur_best # None /\ KeepCurrent(Unwrap(cur_best), Head(ps))
                THEN cur_best
                ELSE Some(Head(ps)))

\* codeforces.rs run_level, the selection
run_level_select(rated, contests, solved_pairs, lv) ==
    LET target_rating == lv * 100
    IN  latest(SelectSeq(rated, LAMBDA p : /\ RatingMatches(p, target_rating)
                                        /\ InContests(contests, p)
                                        /\ ~IsSolved(solved_pairs, p)),
               None)

\* codeforces.rs run_index, the selection
run_index_select(rated, contests, solved_pairs, letter_char) ==
    latest(SelectSeq(rated, LAMBDA p : /\ InContests(contests, p)
                                    /\ starts_with_letter(p.index, letter_char)
                                    /\ ~IsSolved(solved_pairs, p)),
           None)

\* main.rs run_codeforces: |a, b| b.contest_id.cmp(&a.contest_id)
by_contest_id_desc(a, b) == u32_cmp(b.contest_id, a.contest_id)

\* main.rs run_codeforces, the selection
run_codeforces_select(rated, contests, solved_pairs, lv) ==
    LET filtered_problems ==
            SelectSeq(rated, LAMBDA p : InContests(contests, p) /\ ~IsSolved(solved_pairs, p))
        sorted == sort_by(filtered_problems,
                          [i, j \in 1..Len(filtered_problems) |->
                              by_contest_id_desc(filtered_problems[i], filtered_problems[j])])
    IN  find(sorted, [i \in 1..Len(sorted) |-> RatingMatches(sorted[i], lv * 100)])

\* level < 8 || level > 32
LevelOutOfRange(lv) == lv < 8 \/ lv > 32

\* trimmed.len() != 1 || !trimmed.chars().all(|c| c.is_ascii_alphabetic())
NotSingleLetter(trimmed) ==
    Len(trimmed) # 1 \/ ~(\A i \in 1..Len(trimmed) : is_ascii_alphabetic(trimmed[i]))

\* codeforces.rs normalize_index: the upper-case letter
normalize_index(input) ==
    LET trimmed == trim(input)
    IN  IF NotSingleLetter(trimmed) THEN Err ELSE Ok(to_ascii_uppercase(trimmed[1]))

----------------------------------------------------------------------------
(* What each Codeforces fetch may return, over every response of the       *)
(* server: the fetch applied to the response.                              *)

FetchProblemSetResults == {fetch_problem_set(resp) : resp \in CfProblemSetResponses}

FetchContestsResults == {fetch_contests(resp) : resp \in CfContestListResponses}

MainFetchContestsResults ==
    {main_fetch_contests(resp, CUTOFF_TS) : resp \in CfContestListResponses}

FetchUserSubmissionsResults ==
    {fetch_user_submissions(resp) : resp \in CfSubmissionResponses}

----------------------------------------------------------------------------
(* utils.rs: fetch_json and parse_json_payload.                            *)

\* the keys of the payload handed to parse_json_payload alone
JsonKeys == {<<"a">>, <<"b">>, <<"c">>}

\* the keys of the object bodies the AtCoder endpoints may answer with
ResponseKeys == {<<"a">>, <<"b">>}

\* the ways to key the members of an object with keys of Keys: the keys differ
ObjectKeys(Keys) ==
    {k \in SeqsUpTo(Keys, Cardinality(Keys)) :
        \A i, j \in 1..Len(k) : k[i] = k[j] => i = j}

\* the members of the object that holds the values l under the keys ks
ObjectEntries(l, ks) == [i \in 1..Len(l) |-> <<ks[i], l[i]>>]

\* the responses of an endpoint that serves the value lists Lists
JsonResponses(Lists) ==
    BrokenResponses
        \cup {Response("array", st, l) : st \in HttpStatuses, l \in Lists}
        \cup {Response("object", st, ObjectEntries(p[1], p[2])) :
                    st \in HttpStatuses,
                    p \in {q \in Lists \X ObjectKeys(ResponseKeys) : Len(q[1]) = Len(q[2])}}

by_key(a, b) == str_cmp(a[1], b[1])

\* a slip in the object branch: the first member is skipped
ObjectValuesButFirst(entries) ==
    LET sorted == sort_by(entries, [i, j \in 1..Len(entries) |-> by_key(entries[i], entries[j])])
    IN  [i \in 1..(Len(sorted) - 1) |-> sorted[i + 1][2]]

\* serde_json::Value::Object(map) => map.into_iter().map(|(_, v)| v).collect():
\* the map holds its members in the order of the keys
ObjectValues(entries) ==
    LET sorted == sort_by(entries, [i, j \in 1..Len(entries) |-> by_key(entries[i], entries[j])])
    IN  [i \in 1..Len(sorted) |-> sorted[i][2]]

\* the items of the payload, before they are decoded
PayloadItems(resp) == IF resp.kind = "object" THEN ObjectValues(resp.items) ELSE resp.items

\* serde: AtcoderContest { id: String, start_epoch_second: Option<u64> }
decode_atcoder_contest(raw) ==
    IF raw.id = None THEN Err
    ELSE Ok([id |-> Unwrap(raw.id), start_epoch_second |-> raw.start_epoch_second])

\* serde: AtcoderProblem { id: String, contest_id: String }
decode_atcoder_problem(raw) ==
    IF raw.id = None \/ raw.contest_id = None THEN Err
    ELSE Ok([id |-> Unwrap(raw.id), contest_id |-> Unwrap(raw.contest_id)])

\* serde: AtcoderSubmission { problem_id: String, result: String, epoch_second: u64 }
decode_atcoder_submission(raw) ==
    IF raw.problem_id = None \/ raw.result = None \/ raw.epoch_second = None THEN Err
    ELSE Ok([problem_id |-> Unwrap(raw.problem_id),
             result |-> Unwrap(raw.result),
             epoch_second |-> Unwrap(raw.epoch_second)])

\* serde_json::from_value::<T> on an item, by the type T asked for
from_value(T, raw) ==
    CASE T = "AtcoderContest" -> decode_atcoder_contest(raw)
      [] T = "AtcoderProblem" -> decode_atcoder_problem(raw)
      [] T = "AtcoderSubmission" -> decode_atcoder_submission(raw)

\* client.get(url).send()?, then parse_json_payload::<T>(response, label)
parse_json_payload(resp, T) ==
    IF resp.kind = "send_failed" THEN Err
    ELSE IF ~is_success(resp.status) THEN Err
    ELSE IF resp.kind \notin {"array", "object"} THEN Err
    ELSE LET items == PayloadItems(resp)
         IN  IF \E i \in 1..Len(items) : ~from_value(T, items[i]).ok THEN Err
             ELSE Ok([i \in 1..Len(items) |-> from_value(T, items[i]).value])

----------------------------------------------------------------------------
(* AtCoder (atcoder.rs). *)

ABC1 == <<"a", "b", "c", "1">>

ABC2_UPPER == <<"A", "B", "C", "2">>

ABCX == <<"a", "b", "c", "x">>

ARC2 == <<"a", "r", "c", "2">>

\* the contests problems belong to, and the contests of the contest list
AcProblemContestIds == {ABC1, ABC2_UPPER, ABCX}

AcContestIds == AcProblemContestIds \cup {ARC2}

AcIndexKeys == {<<"A">>, <<"a", "1">>}

AcProblemId(contest_id, key) == contest_id \o <<"_">> \o key

\* a problem object of problems.json; a member may be missing
AcRawProblems ==
    {[id |-> Some(AcProblemId(c, k)), contest_id |-> Some(c)] :
        c \in AcProblemContestIds, k \in AcIndexKeys}
        \cup {[id |-> None, contest_id |-> Some(ABC1)]}

\* a contest object of contests.json
AcRawContests ==
    [id : {Some(c) : c \in AcContestIds},
     start_epoch_second : {None, Some(CUTOFF_TS - 1), Some(CUTOFF_TS)}]
        \cup {[id |-> None, start_epoch_second |-> None]}

\* the problems submissions are about
AcSubmissionIds == {AcProblemId(ABC1, <<"A">>), AcProblemId(ABC2_UPPER, <<"A">>)}

\* a submission object of the submissions endpoint
AcRawSubmissions ==
    [problem_id : {Some(i) : i \in AcSubmissionIds},
     result : {Some("AC"), Some("WA")},
     epoch_second : {Some(t) : t \in 0..MaxTs}]
        \cup {[problem_id |-> None, result |-> Some("AC"), epoch_second |-> Some(0)]}

\* contest lists name a contest at most once
AcContestLists ==
    {l \in SeqsUpTo(AcRawContests, MaxCat) :
        \A i, j \in 1..Len(l) : l[i].id = l[j].id => i = j}

\* contest.id.to_lowercase().starts_with("abc")
IsAbc(contest_id) == starts_with(str_to_lowercase(contest_id), <<"a", "b", "c">>)

fetch_abc_contests(resp) ==
    LET r == parse_json_payload(resp, "AtcoderContest")
    IN  IF r.ok
        THEN Ok({r.value[i].id : i \in {j \in 1..Len(r.value) :
                    /\ IsAbc(r.value[j].id)
                    /\ StartedBefore(r.value[j].start_epoch_second, CUTOFF_TS)}})
        ELSE Err

fetch_problems(resp) == parse_json_payload(resp, "AtcoderProblem")

\* contest_id.trim_start_matches(..).parse::<u32>().unwrap_or(0)
contest_number(contest_id) ==
    LET n == parse_u32(trim_start_alphabetic(contest_id))
    IN  IF n.ok THEN n.value ELSE 0

\* problem_id.split('_').last().map(|idx| idx.to_ascii_lowercase())
problem_index(problem_id) ==
    LET underscores == {i \in 1..Len(problem_id) : problem_id[i] = "_"}
        last_start == IF underscores = {} THEN 1
                      ELSE 1 + CHOOSE i \in underscores : \A j \in underscores : j <= i
    IN  Some(str_to_lowercase(SubSeq(problem_id, last_start, Len(problem_id))))

\* atcoder.rs normalize_index: the lower-case letter, as a string
ac_normalize_index(input) ==
    LET trimmed == str_to_lowercase(trim(input))
    IN  IF NotSingleLetter(trimmed) THEN Err ELSE Ok(trimmed)

\* the filter of run
AcInContests(abc_contests, problem) == problem.contest_id \in abc_contests

IndexIs(problem, task_letter) ==
    LET idx == problem_index(problem.id)
    IN  IF idx = None THEN FALSE ELSE Unwrap(idx) = task_letter

AcIsSolved(solved_ids, problem) == problem.id \in solved_ids

\* contest_number(b).cmp(&contest_number(a)).then_with(|| a.id.cmp(&b.id))
by_number_desc_then_id(a, b) ==
    LET c == u32_cmp(contest_number(b.contest_id), contest_number(a.contest_id))
    IN  IF c # 0 THEN c ELSE str_cmp(a.id, b.id)

\* atcoder.rs run, the selection
run_select(all_problems, abc_contests, solved_ids, task_letter) ==
    LET candidates ==
            SelectSeq(all_problems, LAMBDA problem : /\ AcInContests(abc_contests, problem)
                                                  /\ IndexIs(problem, task_letter))
        sorted == sort_by(candidates,
                          [i, j \in 1..Len(candidates) |->
                              by_number_desc_then_id(candidates[i], candidates[j])])
    IN  find(sorted, [i \in 1..Len(sorted) |-> ~AcIsSolved(solved_ids, sorted[i])])

AcContestsResponses == JsonResponses(AcContestLists)

AcProblemsResponses == JsonResponses(SeqsUpTo(AcRawProblems, MaxCat))

AcPageResponses == JsonResponses(SeqsUpTo(AcRawSubmissions, MaxPage))

\* what the three fetches may return, over every response of the server
FetchAbcContestsResults == {fetch_abc_contests(resp) : resp \in AcContestsResponses}

FetchProblemsResults == {fetch_problems(resp) : resp \in AcProblemsResponses}

FetchPageResults ==
    {parse_json_payload(resp, "AtcoderSubmission") : resp \in AcPageResponses}

\* for submission in submissions { if submission.result == "AC" { accepted.insert(..) } .. }
page_accepted(acc, submissions) ==
    acc \cup {submissions[i].problem_id :
                i \in {j \in 1..Len(submissions) : submissions[j].result = "AC"}}

\* .. if submission.epoch_second > max_epoch { max_epoch = submission.epoch_second } }
RECURSIVE page_max_epoch(_, _)
page_max_epoch(max_epoch, submissions) ==
    IF submissions = <<>> THEN max_epoch
    ELSE page_max_epoch(IF Head(submissions).epoch_second > max_epoch
                        THEN Head(submissions).epoch_second
                        ELSE max_epoch,
                        Tail(submissions))

\* a slip in the break test: < for ==
NoAdvanceStrict(max_epoch, cursor) == max_epoch < cursor

\* if max_epoch == from_second { break; }
NoAdvance(max_epoch, cursor) == max_epoch = cursor

\* from_second = max_epoch + 1; epoch seconds stay far below u64::MAX
NextCursor(max_epoch) == max_epoch + 1

\* one turn of the loop of fetch_user_submissions on the fetch result r:
\* the fetch failed (err), the loop is left (break), or it goes on (continue)
loop_iteration(cursor, acc, r) ==
    IF ~r.ok THEN [status |-> "err", from_second |-> cursor, accepted |-> acc]
    ELSE IF r.value = <<>>
    THEN [status |-> "break", from_second |-> cursor, accepted |-> acc]
    ELSE LET max_epoch == page_max_epoch(cursor, r.value)
             acc2 == page_accepted(acc, r.value)
         IN  IF NoAdvance(max_epoch, cursor)
             THEN [status |-> "break", from_second |-> cursor, accepted |-> acc2]
             ELSE [status |-> "continue",
                   from_second |-> NextCursor(max_epoch),
                   accepted |-> acc2]

\* fetch_user_submissions, over every run of the server: from the loop
\* states reached after n fetches, the Results the loop may end with, each
\* with the number of pages fetched.  A cursor is past every timestamp after
\* MaxTs + 1 advancing pages, so no run fetches more than MaxTs + 2 pages.
RECURSIVE paginate(_, _)
paginate(loop_states, n) ==
    IF loop_states = {} \/ n > MaxTs + 2 THEN {}
    ELSE LET turns == UNION {{loop_iteration(st.from_second, st.accepted, r) :
                                r \in FetchPageResults} : st \in loop_states}
             again == {t \in turns : t.status = "continue"}
         IN  {[ok |-> t.status = "break",
               value |-> IF t.status = "break" THEN t.accepted ELSE {},
               fetches |-> n + 1] : t \in turns \ again}
                \cup paginate(again, n + 1)

AcFetchUserSubmissionsResults ==
    paginate({[status |-> "continue", from_second |-> 0, accepted |-> {}]}, 0)

----------------------------------------------------------------------------
(* The arguments an invocation may be given. *)

LevelArgs == {7, 8, 9, 33}

IndexArgs == {<<"a">>, <<" ", "B">>, <<"a", "b">>, <<"1">>, <<" ">>}

----------------------------------------------------------------------------
(* The state of one invocation. *)

VARIABLES
    entry,           \* the entry point called: run_level, run_index, run_codeforces, run
    pc,              \* the statement the entry point is at
    arg,             \* its argument: level, or index_input
    axis,            \* the checked argument: level, letter, task_letter
    rated_problems,  \* the catalog: rated_problems (Codeforces), problems (AtCoder)
    contests,        \* the eligibility set: div2_contests, abc_contests
    solved,          \* the solved set
    best,            \* the problem selected, if any
    printed,         \* what the invocation printed: nothing, error, no_candidate, problem
    outcome,         \* running, or the Result returned: Ok, Err
    calls,           \* the endpoints requested so far, in order
    \* one call of atcoder.rs fetch_user_submissions, turn by turn
    page_pc,         \* loop, or returned
    from_second,     \* the cursor
    accepted,        \* the problem ids accepted so far
    page_result,     \* running, or the Result returned: Ok, Err
    fetches,         \* history: the pages fetched
    advances,        \* history: the fetched pages that were not empty and held a
                     \* timestamp above the cursor they were fetched at
    prev_from,       \* history: the cursor of the last fetch
    last_page,       \* history: the last fetch, <<its length, its timestamps>>
    \* one payload handed to parse_json_payload, as an array and as an object
    json_values,     \* the values r1, r2, ..
    json_keys,       \* the keys k1, k2, .. of the object
    from_array,      \* the Result on the array, once parsed
    from_object,     \* the Result on the object, once parsed
    \* one call of a fetch function, on one response of its endpoint
    callee,          \* the fetch function called, "none" before the call
    response,        \* the response the server gave
    fetched,         \* the Result the fetch function returned, once it returned
    failure,         \* what the error it returned carries, when it returned one
    \* the server of the submission history
    history          \* the user's submissions, oldest first

runVars ==
    <<entry, pc, arg, axis, rated_problems, contests, solved, best, printed, outcome,
      calls>>

pageVars ==
    <<page_pc, from_second, accepted, page_result, fetches, advances, prev_from,
      last_page>>

jsonVars == <<json_values, json_keys, from_array, from_object>>

callVars == <<callee, response, fetched, failure>>

vars == <<runVars, pageVars, jsonVars, callVars, history>>

PageInit ==
    /\ page_pc = "loop"
    /\ from_second = 0
    /\ accepted = {}
    /\ page_result = "running"
    /\ fetches = 0
    /\ advances = 0
    /\ prev_from = 0
    /\ last_page = <<0, {}>>

JsonIdle ==
    /\ json_values = <<>>
    /\ json_keys = <<>>
    /\ from_array = None
    /\ from_object = None

CallIdle ==
    /\ callee = "none"
    /\ response = Response("send_failed", 0, <<>>)
    /\ fetched = None
    /\ failure = None

HistoryIdle == history = <<>>

RunInit ==
    /\ entry = "none"
    /\ pc = "idle"
    /\ arg = <<>>
    /\ axis = <<>>
    /\ rated_problems = <<>>
    /\ contests = {}
    /\ solved = {}
    /\ best = None
    /\ printed = "nothing"
    /\ outcome = "running"
    /\ calls = <<>>

Init == RunInit /\ PageInit /\ JsonIdle /\ CallIdle /\ HistoryIdle

\* return Ok(()) / Err(..): the invocation is over
Return(result, message) ==
    /\ pc' = "done"
    /\ outcome' = result
    /\ printed' = message

\* the ? operator on a fetch: an error ends the invocation, a value is kept
\* and the next statement is reached
Continue(next_pc) ==
    /\ pc' = next_pc
    /\ UNCHANGED <<outcome, printed>>

\* a slip at the end of the entry points: no candidate returned as an error
ReportAbsenceAsError(selected) ==
    /\ best' = selected
    /\ IF selected = None THEN Return("Err", "nothing") ELSE Return("Ok", "problem")

\* if let Some(problem) = best { .. } else { println!("No problem ..") }; Ok(())
Report(selected) ==
    /\ best' = selected
    /\ Return("Ok", IF selected = None THEN "no_candidate" ELSE "problem")

----------------------------------------------------------------------------
(* codeforces.rs run_level *)

RunLevel(lv) ==
    /\ pc = "idle"
    /\ entry' = "run_level"
    /\ arg' = lv
    /\ IF LevelOutOfRange(lv)
       THEN Return("Ok", "error") /\ UNCHANGED axis
       ELSE Continue("fetch_problem_set") /\ axis' = lv
    /\ UNCHANGED <<pageVars, jsonVars, callVars, history,
                   rated_problems, contests, solved, best, calls>>

\* a slip in the order of the fetches: the submissions are asked for next,
\* the contest list is left out
FetchProblemSetThenSubmissions ==
    /\ pc = "fetch_problem_set"
    /\ entry \in {"run_level", "run_index"}
    /\ calls' = Append(calls, "problemset.problems")
    /\ \E r \in FetchProblemSetResults :
              IF r.ok
              THEN rated_problems' = r.value /\ Continue("fetch_user_submissions")
              ELSE Return("Err", "nothing") /\ UNCHANGED rated_problems
    /\ UNCHANGED <<pageVars, jsonVars, callVars, history,
                   entry, arg, axis, contests, solved, best>>

\* let rated_problems = fetch_problem_set(client)?;
FetchProblemSet ==
    /\ pc = "fetch_problem_set"
    /\ entry \in {"run_level", "run_index"}
    /\ calls' = Append(calls, "problemset.problems")
    /\ \E r \in FetchProblemSetResults :
              IF r.ok
              THEN rated_problems' = r.value /\ Continue("fetch_contests")
              ELSE Return("Err", "nothing") /\ UNCHANGED rated_problems
    /\ UNCHANGED <<pageVars, jsonVars, callVars, history,
                   entry, arg, axis, contests, solved, best>>

\* let div2_contests = fetch_contests(client)?;
FetchContests ==
    /\ pc = "fetch_contests"
    /\ entry \in {"run_level", "run_index"}
    /\ calls' = Append(calls, "contest.list")
    /\ \E r \in FetchContestsResults :
              IF r.ok
              THEN contests' = r.value /\ Continue("fetch_user_submissions")
              ELSE Return("Err", "nothing") /\ UNCHANGED contests
    /\ UNCHANGED <<pageVars, jsonVars, callVars, history,
                   entry, arg, axis, rated_problems, solved, best>>

\* let passed_problems = fetch_user_submissions(client)?; let solved = ..collect();
FetchUserSubmissions ==
    /\ pc = "fetch_user_submissions"
    /\ entry \in {"run_level", "run_index"}
    /\ calls' = Append(calls, "user.status")
    /\ \E r \in FetchUserSubmissionsResults :
              IF r.ok
              THEN solved' = SolvedPairs(r.value) /\ Continue("select")
              ELSE Return("Err", "nothing") /\ UNCHANGED solved
    /\ UNCHANGED <<pageVars, jsonVars, callVars, history,
                   entry, arg, axis, rated_problems, contests, best>>

RunLevelSelect ==
    /\ pc = "select"
    /\ entry = "run_level"
    /\ Report(run_level_select(rated_problems, contests, solved, axis))
    /\ UNCHANGED <<pageVars, jsonVars, callVars, history,
                   entry, arg, axis, rated_problems, contests, solved, calls>>

----------------------------------------------------------------------------
(* codeforces.rs run_index *)

RunIndex(index_input) ==
    /\ pc = "idle"
    /\ entry' = "run_index"
    /\ arg' = index_input
    /\ LET letter == normalize_index(index_input)
       IN  IF letter.ok
           THEN Continue("fetch_problem_set") /\ axis' = letter.value
           ELSE Return("Err", "nothing") /\ UNCHANGED axis
    /\ UNCHANGED <<pageVars, jsonVars, callVars, history,
                   rated_problems, contests, solved, best, calls>>

RunIndexSelect ==
    /\ pc = "select"
    /\ entry = "run_index"
    /\ Report(run_index_select(rated_problems, contests, solved, axis))
    /\ UNCHANGED <<pageVars, jsonVars, callVars, history,
                   entry, arg, axis, rated_problems, contests, solved, calls>>

----------------------------------------------------------------------------
(* main.rs run_codeforces *)

RunCodeforces(lv) ==
    /\ pc = "idle"
    /\ entry' = "run_codeforces"
    /\ arg' = lv
    /\ IF LevelOutOfRange(lv)
       THEN Return("Ok", "error") /\ UNCHANGED axis
       ELSE Continue("fetch_problem_set") /\ axis' = lv
    /\ UNCHANGED <<pageVars, jsonVars, callVars, history,
                   rated_problems, contests, solved, best, calls>>

MainFetchProblemSet ==
    /\ pc = "fetch_problem_set"
    /\ entry = "run_codeforces"
    /\ calls' = Append(calls, "problemset.problems")
    /\ \E r \in FetchProblemSetResults :
              IF r.ok
              THEN rated_problems' = r.value /\ Continue("fetch_contests")
              ELSE Return("Err", "nothing") /\ UNCHANGED rated_problems
    /\ UNCHANGED <<pageVars, jsonVars, callVars, history,
                   entry, arg, axis, contests, solved, best>>

MainFetchContests ==
    /\ pc = "fetch_contests"
    /\ entry = "run_codeforces"
    /\ calls' = Append(calls, "contest.list")
    /\ \E r \in MainFetchContestsResults :
              IF r.ok
              THEN contests' = r.value /\ Continue("fetch_user_submissions")
              ELSE Return("Err", "nothing") /\ UNCHANGED contests
    /\ UNCHANGED <<pageVars, jsonVars, callVars, history,
                   entry, arg, axis, rated_problems, solved, best>>

MainFetchUserSubmissions ==
    /\ pc = "fetch_user_submissions"
    /\ entry = "run_codeforces"
    /\ calls' = Append(calls, "user.status")
    /\ \E r \in FetchUserSubmissionsResults :
              IF r.ok
              THEN solved' = SolvedPairs(r.value) /\ Continue("select")
              ELSE Return("Err", "nothing") /\ UNCHANGED solved
    /\ UNCHANGED <<pageVars, jsonVars, callVars, history,
                   entry, arg, axis, rated_problems, contests, best>>

RunCodeforcesSelect ==
    /\ pc = "select"
    /\ entry = "run_codeforces"
    /\ Report(run_codeforces_select(rated_problems, contests, solved, axis))
    /\ UNCHANGED <<pageVars, jsonVars, callVars, history,
                   entry, arg, axis, rated_problems, contests, solved, calls>>

----------------------------------------------------------------------------
(* atcoder.rs run *)

Run(index_input) ==
    /\ pc = "idle"
    /\ entry' = "run"
    /\ arg' = index_input
    /\ LET task_letter == ac_normalize_index(index_input)
       IN  IF task_letter.ok
           THEN Continue("fetch_abc_contests") /\ axis' = task_letter.value
           ELSE Return("Err", "nothing") /\ UNCHANGED axis
    /\ UNCHANGED <<pageVars, jsonVars, callVars, history,
                   rated_problems, contests, solved, best, calls>>

\* let abc_contests = fetch_abc_contests(client)?;
FetchAbcContests ==
    /\ pc = "fetch_abc_contests"
    /\ entry = "run"
    /\ calls' = Append(calls, "contests.json")
    /\ \E r \in FetchAbcContestsResults :
              IF r.ok
              THEN contests' = r.value /\ Continue("fetch_problems")
              ELSE Return("Err", "nothing") /\ UNCHANGED contests
    /\ UNCHANGED <<pageVars, jsonVars, callVars, history,
                   entry, arg, axis, rated_problems, solved, best>>

\* let problems = fetch_problems(client)?;
FetchProblems ==
    /\ pc = "fetch_problems"
    /\ entry = "run"
    /\ calls' = Append(calls, "problems.json")
    /\ \E r \in FetchProblemsResults :
              IF r.ok
              THEN rated_problems' = r.value /\ Continue("fetch_user_submissions")
              ELSE Return("Err", "nothing") /\ UNCHANGED rated_problems
    /\ UNCHANGED <<pageVars, jsonVars, callVars, history,
                   entry, arg, axis, contests, solved, best>>

\* let solved = fetch_user_submissions(client)?; every page it fetched is a call
AcFetchUserSubmissions ==
    /\ pc = "fetch_user_submissions"
    /\ entry = "run"
    /\ \E r \in AcFetchUserSubmissionsResults :
          /\ calls' = calls \o [i \in 1..r.fetches |-> "results"]
          /\ IF r.ok
             THEN solved' = r.value /\ Continue("select")
             ELSE Return("Err", "nothing") /\ UNCHANGED solved
    /\ UNCHANGED <<pageVars, jsonVars, callVars, history,
                   entry, arg, axis, rated_problems, contests, best>>

RunSelect ==
    /\ pc = "select"
    /\ entry = "run"
    /\ Report(run_select(rated_problems, contests, solved, axis))
    /\ UNCHANGED <<pageVars, jsonVars, callVars, history,
                   entry, arg, axis, rated_problems, contests, solved,
                   calls>>

----------------------------------------------------------------------------

Next ==
    \/ \E lv \in LevelArgs : RunLevel(lv)
    \/ FetchProblemSet
    \/ FetchContests
    \/ FetchUserSubmissions
    \/ RunLevelSelect
    \/ \E index_input \in IndexArgs : RunIndex(index_input)
    \/ RunIndexSelect
    \/ \E lv \in LevelArgs : RunCodeforces(lv)
    \/ MainFetchProblemSet
    \/ MainFetchContests
    \/ MainFetchUserSubmissions
    \/ RunCodeforcesSelect
    \/ \E index_input \in IndexArgs : Run(index_input)
    \/ FetchAbcContests
    \/ FetchProblems
    \/ AcFetchUserSubmissions
    \/ RunSelect

Spec == Init /\ [][Next]_vars

----------------------------------------------------------------------------
(* atcoder.rs fetch_user_submissions, one turn of its loop at a time. *)

\* the timestamps of a fetched page
PageEpochs(r) == IF r.ok THEN {r.value[i].epoch_second : i \in 1..Len(r.value)} ELSE {}

FetchPage ==
    /\ page_pc = "loop"
    /\ \E r \in FetchPageResults :
          LET turn == loop_iteration(from_second, accepted, r)
          IN  /\ from_second' = turn.from_second
              /\ accepted' = turn.accepted
              /\ page_pc' = IF turn.status = "continue" THEN "loop" ELSE "returned"
              /\ page_result' = CASE turn.status = "continue" -> "running"
                                  [] turn.status = "break" -> "Ok"
                                  [] turn.status = "err" -> "Err"
              /\ fetches' = fetches + 1
              /\ advances' = IF \E t \in PageEpochs(r) : t > from_second
                             THEN advances + 1
                             ELSE advances
              /\ prev_from' = from_second
              /\ last_page' = <<IF r.ok THEN Len(r.value) ELSE 0, PageEpochs(r)>>
    /\ UNCHANGED <<runVars, jsonVars, callVars, history>>

PageNext == FetchPage

PageSpecInit == RunInit /\ PageInit /\ JsonIdle /\ CallIdle /\ HistoryIdle

PageSpec == PageSpecInit /\ [][PageNext]_vars

----------------------------------------------------------------------------
(* parse_json_payload on one payload, written as an array and as an object. *)

JsonInit ==
    /\ json_values \in SeqsUpTo(AcRawProblems, MaxCat)
    /\ json_keys \in {k \in ObjectKeys(JsonKeys) : Len(k) = Len(json_values)}
    /\ from_array = None
    /\ from_object = None

ParseArray ==
    /\ from_array = None
    /\ from_array' =
         Some(parse_json_payload(Response("array", 200, json_values), "AtcoderProblem"))
    /\ UNCHANGED <<runVars, pageVars, callVars, history, json_values, json_keys, from_object>>

ParseObject ==
    /\ from_object = None
    /\ from_object' =
         Some(parse_json_payload(
                 Response("object", 200, ObjectEntries(json_values, json_keys)),
                 "AtcoderProblem"))
    /\ UNCHANGED <<runVars, pageVars, callVars, history, json_values, json_keys, from_array>>

JsonNext == ParseArray \/ ParseObject

JsonSpecInit == RunInit /\ PageInit /\ JsonInit /\ CallIdle /\ HistoryIdle

JsonSpec == JsonSpecInit /\ [][JsonNext]_vars

----------------------------------------------------------------------------
(* One call of a fetch function on one response, with what its error says. *)

\* the characters one item takes in the text of a body
ItemChars == 120

\* text.chars().take(200)
SnippetChars == 200

\* the number of characters of the text of the body
BodyChars(resp) ==
    CASE resp.kind = "send_failed" -> 0
      [] resp.kind = "invalid" -> 2 * ItemChars + 1
      [] resp.kind = "scalar" -> 1
      [] OTHER -> 2 + ItemChars * Len(resp.items)

\* let snippet: String = text.chars().take(200).collect(): its length
snippet_chars(resp) == IF BodyChars(resp) < SnippetChars THEN BodyChars(resp) ELSE SnippetChars

\* what an error says: its kind, and the label, the HTTP status and the
\* snippet of the body where its message holds them
ErrorOf(kind, label, status, snippet) ==
    [kind |-> kind, label |-> label, status |-> status, snippet |-> snippet]

\* the error of client.get(url).send()?, then parse_json_payload::<T>(response, label)
payload_error(resp, label, T) ==
    IF resp.kind = "send_failed" THEN Some(ErrorOf("transport", None, None, None))
    ELSE IF ~is_success(resp.status)
    THEN Some(ErrorOf("http", Some(label), Some(resp.status), Some(snippet_chars(resp))))
    ELSE IF resp.kind = "invalid"
    THEN Some(ErrorOf("json", Some(label), None, Some(snippet_chars(resp))))
    ELSE IF resp.kind \notin {"array", "object"}
    THEN Some(ErrorOf("shape", Some(label), None, None))
    ELSE LET items == PayloadItems(resp)
         IN  IF \E i \in 1..Len(items) : ~from_value(T, items[i]).ok
             THEN Some(ErrorOf("element", None, None, None))
             ELSE None

\* the error of client.get(url).send()?.json()?: reqwest's own, whatever the status
envelope_error(resp, T) ==
    IF resp.kind = "send_failed" THEN Some(ErrorOf("transport", None, None, None))
    ELSE IF resp.kind # "envelope" THEN Some(ErrorOf("reqwest_decode", None, None, None))
    ELSE IF \E i \in 1..Len(resp.items) : ~deserialize(T, resp.items[i]).ok
    THEN Some(ErrorOf("reqwest_decode", None, None, None))
    ELSE None

\* fn is called, the server answers resp, fn returns result
Call(fn, resp, result, err) ==
    /\ callee' = fn
    /\ response' = resp
    /\ fetched' = Some(result)
    /\ failure' = err
    /\ UNCHANGED <<runVars, pageVars, jsonVars, history>>

CallFetchProblemSet ==
    /\ callee = "none"
    /\ \E resp \in CfProblemSetResponses :
           Call("fetch_problem_set", resp, fetch_problem_set(resp),
                envelope_error(resp, "UnratedProblem"))

CallFetchContests ==
    /\ callee = "none"
    /\ \E resp \in CfContestListResponses :
           Call("fetch_contests", resp, fetch_contests(resp), envelope_error(resp, "Contest"))

CallMainFetchContests ==
    /\ callee = "none"
    /\ \E resp \in CfContestListResponses :
           Call("main_fetch_contests", resp, main_fetch_contests(resp, CUTOFF_TS),
                envelope_error(resp, "Contest"))

CallFetchUserSubmissions ==
    /\ callee = "none"
    /\ \E resp \in CfSubmissionResponses :
           Call("fetch_user_submissions", resp, fetch_user_submissions(resp),
                envelope_error(resp, "Submission"))

CallFetchAbcContests ==
    /\ callee = "none"
    /\ \E resp \in AcContestsResponses :
           Call("fetch_abc_contests", resp, fetch_abc_contests(resp),
                payload_error(resp, "contests.json", "AtcoderContest"))

CallFetchProblems ==
    /\ callee = "none"
    /\ \E resp \in AcProblemsResponses :
           Call("fetch_problems", resp, fetch_problems(resp),
                payload_error(resp, "problems.json", "AtcoderProblem"))

\* the fetch of one page in the loop of atcoder.rs fetch_user_submissions
CallFetchResults ==
    /\ callee = "none"
    /\ \E resp \in AcPageResponses :
           Call("fetch_results", resp, parse_json_payload(resp, "AtcoderSubmission"),
                payload_error(resp, "results", "AtcoderSubmission"))

FetchNext ==
    \/ CallFetchProblemSet
    \/ CallFetchContests
    \/ CallMainFetchContests
    \/ CallFetchUserSubmissions
    \/ CallFetchAbcContests
    \/ CallFetchProblems
    \/ CallFetchResults

FetchSpecInit == RunInit /\ PageInit /\ JsonIdle /\ CallIdle /\ HistoryIdle

FetchSpec == FetchSpecInit /\ [][FetchNext]_vars

----------------------------------------------------------------------------
(* atcoder.rs fetch_user_submissions against a server that answers from the  *)
(* user's history: at a cursor, the oldest submissions from that time on, a  *)
(* page of at most MaxPage of them.                                          *)

\* the submissions of a history, at most
MaxHist == 3

\* the submissions a history may hold
HistorySubmissions ==
    [problem_id : AcSubmissionIds, result : {"AC", "WA"}, epoch_second : 0..MaxTs]

\* the histories: oldest first
Histories ==
    {h \in SeqsUpTo(HistorySubmissions, MaxHist) :
        \A i \in 1..(Len(h) - 1) : h[i].epoch_second <= h[i + 1].epoch_second}

\* the page the server answers a request at the cursor with
server_page(h, cursor) ==
    LET since == SelectSeq(h, LAMBDA submission : submission.epoch_second >= cursor)
    IN  IF Len(since) <= MaxPage THEN since ELSE SubSeq(since, 1, MaxPage)

FetchHistoryPage ==
    /\ page_pc = "loop"
    /\ LET r == Ok(server_page(history, from_second))
           turn == loop_iteration(from_second, accepted, r)
       IN  /\ from_second' = turn.from_second
           /\ accepted' = turn.accepted
           /\ page_pc' = IF turn.status = "continue" THEN "loop" ELSE "returned"
           /\ page_result' = CASE turn.status = "continue" -> "running"
                               [] turn.status = "break" -> "Ok"
                               [] turn.status = "err" -> "Err"
           /\ fetches' = fetches + 1
           /\ advances' = IF \E t \in PageEpochs(r) : t > from_second
                          THEN advances + 1
                          ELSE advances
           /\ prev_from' = from_second
           /\ last_page' = <<Len(r.value), PageEpochs(r)>>
    /\ UNCHANGED <<runVars, jsonVars, callVars, history>>

HistoryNext == FetchHistoryPage

HistorySpecInit == RunInit /\ PageInit /\ JsonIdle /\ CallIdle /\ history \in Histories

HistorySpec == HistorySpecInit /\ [][HistoryNext]_vars

----------------------------------------------------------------------------
(* The claims.  What they speak of, in terms of the state of an invocation. *)

\* the invocation is over and a problem was selected
Returned == pc = "done" /\ best # None

\* the problem selected
Selected == Unwrap(best)

\* the problems of the catalog handed to the selection
Catalog == {rated_problems[i] : i \in 1..Len(rated_problems)}

\* the letter of an index argument, surrounding white space aside
Letter == trim(arg)[1]

CaseInsensitiveEq(a, b) == to_ascii_lowercase(a) = to_ascii_lowercase(b)

\* AtCoder: the part of a problem id after its last underscore
AfterLastUnderscore(id) ==
    LET underscores == {i \in 1..Len(id) : id[i] = "_"}
    IN  IF underscores = {} THEN id
        ELSE SubSeq(id, 1 + CHOOSE i \in underscores : \A j \in underscores : j <= i, Len(id))

\* the index key of a problem
IndexKeyOf(p) == IF entry = "run" THEN AfterLastUnderscore(p.id) ELSE p.index

\* the identity of a problem is in the solved set
InSolvedSet(p) ==
    IF entry = "run" THEN p.id \in solved ELSE <<p.contest_id, p.index>> \in solved

\* the axis predicate as the entry point applies it: the rating is level * 100;
\* the index begins with the letter (Codeforces); the index key is the letter
\* (AtCoder); upper and lower case are the same letter
AxisHolds(p) ==
    CASE entry \in {"run_level", "run_codeforces"} -> p.rating = arg * 100
      [] entry = "run_index" ->
            p.index # <<>> /\ CaseInsensitiveEq(Head(p.index), Letter)
      [] entry = "run" ->
            str_to_lowercase(IndexKeyOf(p)) = str_to_lowercase(trim(arg))
      [] OTHER -> FALSE

\* the filter: contest in the eligibility set, identity not in the solved
\* set, axis predicate true
PassesFilter(p) == p.contest_id \in contests /\ ~InSolvedSet(p) /\ AxisHolds(p)

\* the numeric contest-ordering key
ContestKey(p) == IF entry = "run" THEN contest_number(p.contest_id) ELSE p.contest_id

\* C1: the problem run_level, run_index and the AtCoder run return never has
\* its identity in the solved set handed to the selection: (contest id, index)
\* on Codeforces, the problem id on AtCoder.
C1_ReturnedNotSolved ==
    Returned /\ entry \in {"run_level", "run_index", "run"} => ~InSolvedSet(Selected)

\* C1 happens: AtCoder run returned a problem although a problem of the
\* letter from an eligible contest with a larger key is in the catalog, solved
C1_Witness ==
    /\ Returned
    /\ entry = "run"
    /\ \E p \in Catalog :
          /\ InSolvedSet(p)
          /\ p.contest_id \in contests
          /\ AxisHolds(p)
          /\ ContestKey(p) > ContestKey(Selected)

\* C2: among the problems that pass the filter, the one returned has the
\* largest contest-ordering key: the contest id on Codeforces; on AtCoder the
\* contest id without its alphabetic prefix, read as a number, 0 if that fails.
C2_MaxContestKey ==
    Returned =>
        /\ Selected \in Catalog
        /\ PassesFilter(Selected)
        /\ \A p \in Catalog : PassesFilter(p) => ContestKey(p) <= ContestKey(Selected)

\* C2 happens: AtCoder run returned the problem of ABC2 that comes second in
\* the catalog, after a problem of abc1 that passes the filter too
C2_Witness ==
    /\ Returned
    /\ entry = "run"
    /\ Len(rated_problems) = 2
    /\ Selected = rated_problems[2]
    /\ Selected.contest_id = ABC2_UPPER
    /\ PassesFilter(rated_problems[1])
    /\ ContestKey(rated_problems[1]) = 1

\* C3: when several problems that pass the filter share the contest of the
\* problem returned, the one returned has the lexicographically smallest index
\* key, whatever the order of the catalog.
C3_TieBreakSmallestIndex ==
    Returned =>
        \A p \in Catalog :
            PassesFilter(p) /\ p.contest_id = Selected.contest_id
                => str_cmp(IndexKeyOf(Selected), IndexKeyOf(p)) <= 0

\* C4: the problem run_index and the AtCoder run return has an index key
\* whose first character is the letter asked for, upper or lower case.
C4_IndexBeginsWithLetter ==
    Returned /\ entry \in {"run_index", "run"} =>
        /\ IndexKeyOf(Selected) # <<>>
        /\ CaseInsensitiveEq(Head(IndexKeyOf(Selected)), Letter)

\* C4 happens: run_index "a" returned a problem of index "A1", from a catalog
\* that also holds a problem of another letter
C4_Witness ==
    /\ Returned
    /\ entry = "run_index"
    /\ arg = <<"a">>
    /\ Selected.index = <<"A", "1">>
    /\ \E p \in Catalog : p.index = <<"b">> /\ p.contest_id \in contests

\* C5: for a level N in 8..32 the problem the rating selectors return has the
\* rating N * 100, so it has a rating.
C5_RatingIsLevelTimes100 ==
    Returned /\ entry \in {"run_level", "run_codeforces"} =>
        /\ arg \in 8..32
        /\ Selected.rating = arg * 100

\* C5 happens: run_level 9 returned a problem rated 900 and passed over an
\* unsolved problem of a later eligible contest with another rating
C5_Witness ==
    /\ Returned
    /\ entry = "run_level"
    /\ arg = 9
    /\ \E p \in Catalog :
          /\ p.rating # 900
          /\ p.contest_id \in contests
          /\ ~InSolvedSet(p)
          /\ p.contest_id > Selected.contest_id

\* C6: the contest of the problem returned is in the eligibility set; with
\* an empty eligibility set the selection ends in "no candidate".
C6_ReturnedIsEligible ==
    /\ Returned => Selected.contest_id \in contests
    /\ pc = "done" /\ printed \in {"problem", "no_candidate"} /\ contests = {}
          => printed = "no_candidate" /\ best = None

\* C6 happens: run_level ended in "no candidate" on an empty eligibility set,
\* with an unsolved problem of the rating in the catalog
C6_Witness ==
    /\ pc = "done"
    /\ entry = "run_level"
    /\ printed = "no_candidate"
    /\ contests = {}
    /\ \E p \in Catalog : p.rating = arg * 100 /\ ~InSolvedSet(p)

\* the last page fetched was empty, or held no timestamp above the cursor it
\* was fetched at
LastPageEnds == last_page[1] = 0 \/ \A t \in last_page[2] : t <= prev_from

\* C7: the loop of fetch_user_submissions fetches at most one page more than
\* the pages that advanced the cursor, goes on to another fetch only with a
\* cursor strictly above the one of the fetch before, and is over once a page
\* is empty or holds no timestamp above the cursor.
C7_PaginationTerminates ==
    /\ fetches <= advances + 1
    /\ page_pc = "loop" /\ fetches > 0 => from_second > prev_from
    /\ fetches > 0 /\ LastPageEnds => page_pc = "returned"

\* C7 happens: two pages advanced the cursor and the third ended the loop
C7_Witness ==
    /\ page_pc = "returned"
    /\ page_result = "Ok"
    /\ advances = 2
    /\ fetches = 3
    /\ LastPageEnds

\* the multiset of the elements of a sequence
BagOfSeq(seq) ==
    [x \in {seq[i] : i \in 1..Len(seq)} |-> Cardinality({i \in 1..Len(seq) : seq[i] = x})]

\* C8: parse_json_payload gives the same Result on the object {k1: r1, k2: r2}
\* and on the array [r1, r2]: both fail, or both give the same multiset of
\* elements, under every choice and order of distinct keys.
C8_ObjectAndArrayAgree ==
    from_array # None /\ from_object # None =>
        /\ Unwrap(from_array).ok = Unwrap(from_object).ok
        /\ Unwrap(from_array).ok =>
              BagOfSeq(Unwrap(from_array).value) = BagOfSeq(Unwrap(from_object).value)

\* C8 happens: two records under keys in descending order were decoded both
\* ways, and the two results hold them in different orders
C8_Witness ==
    /\ from_array # None
    /\ from_object # None
    /\ Len(json_values) = 2
    /\ str_cmp(json_keys[1], json_keys[2]) > 0
    /\ Unwrap(from_array).ok
    /\ Unwrap(from_object).ok
    /\ Unwrap(from_array).value # Unwrap(from_object).value

\* the axis argument is malformed: a level outside 8..32, or an index that is
\* not a single alphabetic letter, surrounding white space aside
MalformedAxis ==
    CASE entry = "run_level" -> arg < 8 \/ arg > 32
      [] entry \in {"run_index", "run"} ->
            Len(trim(arg)) # 1 \/ ~is_ascii_alphabetic(trim(arg)[1])
      [] OTHER -> FALSE

\* C9: run_level, run_index and the AtCoder run end in an error on a
\* malformed axis argument.
C9_MalformedAxisIsError == pc = "done" /\ MalformedAxis => outcome = "Err"

\* C10: when every fetch succeeded and no problem of the catalog passes the
\* filter, the entry point returns Ok and prints the "no candidate" message.
C10_NoCandidateIsSuccess ==
    [][pc = "select" /\ (\A p \in Catalog : ~PassesFilter(p))
          => outcome' = "Ok" /\ printed' = "no_candidate"]_vars

\* C10 happens: the AtCoder run returned Ok with "no candidate" on a catalog
\* and an eligibility set that are not empty
C10_Witness ==
    /\ pc = "done"
    /\ entry = "run"
    /\ outcome = "Ok"
    /\ printed = "no_candidate"
    /\ Catalog # {}
    /\ contests # {}
    /\ Len(calls) > 3

\* the label of the endpoint a fetch function requests
EndpointOf(fn) ==
    CASE fn = "fetch_problem_set" -> "problemset.problems"
      [] fn \in {"fetch_contests", "main_fetch_contests"} -> "contest.list"
      [] fn = "fetch_user_submissions" -> "user.status"
      [] fn = "fetch_abc_contests" -> "contests.json"
      [] fn = "fetch_problems" -> "problems.json"
      [] fn = "fetch_results" -> "results"

\* the fetch function called has returned
Called == callee # "none" /\ fetched # None

\* the Result it returned
FetchedResult == Unwrap(fetched)

\* the server answered, with a status that is not a success
NonSuccessAnswer == response.kind # "send_failed" /\ ~is_success(response.status)

\* the error is a NetworkError that carries the status st and a snippet of
\* at most 200 characters of the body
IsNetworkError(e, st) ==
    /\ e.kind = "http"
    /\ e.status = Some(st)
    /\ e.snippet # None
    /\ Unwrap(e.snippet) <= 200

\* C11: when an endpoint answers with a status that is not a success, the
\* fetch fails with a NetworkError that carries the status code and a snippet
\* of at most 200 characters of the raw body, and the body is not decoded.
C11_NonSuccessIsNetworkError ==
    (Called /\ NonSuccessAnswer)
        => /\ ~FetchedResult.ok
           /\ failure # None
           /\ IsNetworkError(Unwrap(failure), response.status)

\* the fetch functions that hand the response to parse_json_payload
PayloadCallees == {"fetch_abc_contests", "fetch_problems", "fetch_results"}

\* the members an item must hold to be decoded, by the fetch function
RequiredMembers(fn) ==
    CASE fn = "fetch_abc_contests" -> {"id"}
      [] fn = "fetch_problems" -> {"id", "contest_id"}
      [] fn = "fetch_results" -> {"problem_id", "result", "epoch_second"}

\* the items of the body of a response, as the server wrote them
RawItems(resp) ==
    IF resp.kind = "object"
    THEN {resp.items[i][2] : i \in 1..Len(resp.items)}
    ELSE {resp.items[i] : i \in 1..Len(resp.items)}

\* the server answered with a success status and a body that is not JSON
BodyNotJson == response.kind = "invalid" /\ is_success(response.status)

\* the server answered with a success status and a collection of which an
\* item lacks a member the element type requires
ElementNotDecodable ==
    /\ response.kind \in {"array", "object"}
    /\ is_success(response.status)
    /\ \E raw \in RawItems(response) : \E f \in RequiredMembers(callee) : raw[f] = None

\* the error is a DecodeError that names the label and carries a snippet of
\* at most 200 characters of the body
IsDecodeError(e, label) ==
    /\ e.kind \in {"json", "element"}
    /\ e.label = Some(label)
    /\ e.snippet # None
    /\ Unwrap(e.snippet) <= 200

\* C12: a body that is not JSON, and a payload of which an element cannot be
\* decoded, both make the fetch fail with a DecodeError that names the
\* endpoint label and carries a snippet of at most 200 characters of the body.
C12_DecodeErrorNamesLabel ==
    (Called /\ callee \in PayloadCallees /\ (BodyNotJson \/ ElementNotDecodable))
        => /\ ~FetchedResult.ok
           /\ failure # None
           /\ IsDecodeError(Unwrap(failure), EndpointOf(callee))

\* the labels of the endpoints
EndpointLabels ==
    {"problemset.problems", "contest.list", "user.status",
     "contests.json", "problems.json", "results"}

\* the stage of a call as the order catalog, eligibility, solved set has it
ClaimedStage ==
    [c \in EndpointLabels |->
        CASE c \in {"problemset.problems", "problems.json"} -> 1
          [] c \in {"contest.list", "contests.json"} -> 2
          [] c \in {"user.status", "results"} -> 3]

\* the stage of a call when AtCoder asks for the contest list before the catalog
PlatformStage ==
    [c \in EndpointLabels |->
        CASE c \in {"problemset.problems", "contests.json"} -> 1
          [] c \in {"contest.list", "problems.json"} -> 2
          [] c \in {"user.status", "results"} -> 3]

\* the in-memory selection has been reached
SelectionReached == pc = "select" \/ (pc = "done" /\ printed \in {"problem", "no_candidate"})

\* the calls made so far follow the stages: none of a later stage before one
\* of an earlier stage, none before every earlier stage had its call, the
\* catalog and the contest list asked for once, and the selection after a
\* call of each stage
InStageOrder(stage) ==
    /\ \A i, j \in 1..Len(calls) : i < j => stage[calls[i]] <= stage[calls[j]]
    /\ \A i \in 1..Len(calls) :
          \A k \in 1..(stage[calls[i]] - 1) : \E j \in 1..(i - 1) : stage[calls[j]] = k
    /\ \A i, j \in 1..Len(calls) :
          (stage[calls[i]] = stage[calls[j]] /\ stage[calls[i]] < 3) => i = j
    /\ SelectionReached => \A k \in 1..3 : \E i \in 1..Len(calls) : stage[calls[i]] = k

\* C13 as stated: on both platforms the calls are made in the order catalog,
\* then contest list, then solved set, and the selection comes after them.
C13_CatalogFirstOnBothPlatforms == InStageOrder(ClaimedStage)

\* C13: the calls are made one after another and the selection comes after
\* all of them, the solved-set fetches last; Codeforces asks for the catalog
\* and then the contest list, AtCoder for the contest list and then the catalog.
C13_CallsInPlatformOrder == InStageOrder(PlatformStage)

\* an AtCoder invocation that fetched the contest list, the catalog and two
\* pages of submissions or more, and then selected a problem
C13_Witness ==
    /\ entry = "run"
    /\ Returned
    /\ Len(calls) >= 4
    /\ calls[1] = "contests.json"
    /\ calls[2] = "problems.json"

\* the fetch functions that are given a cutoff
CutoffCallees == {"fetch_abc_contests", "main_fetch_contests"}

\* the identifier, the category test and the start timestamp of a contest of
\* the list the server answered, by platform
ContestIdOf(raw) == IF callee = "fetch_abc_contests" THEN Unwrap(raw.id) ELSE raw.id

ContestStartOf(raw) ==
    IF callee = "fetch_abc_contests" THEN raw.start_epoch_second ELSE raw.startTimeSeconds

HasSubstring(s, sub) ==
    \E i \in 1..Len(s) : i + Len(sub) - 1 <= Len(s) /\ SubSeq(s, i, i + Len(sub) - 1) = sub

InCategory(raw) ==
    IF callee = "fetch_abc_contests"
    THEN LET id == Unwrap(raw.id)
         IN  /\ Len(id) >= 3
             /\ CaseInsensitiveEq(id[1], "a")
             /\ CaseInsensitiveEq(id[2], "b")
             /\ CaseInsensitiveEq(id[3], "c")
    ELSE HasSubstring(raw.name, DIV2) /\ ~HasSubstring(raw.name, DIV1)

\* the contest has a start timestamp, strictly below the cutoff
StartsBeforeCutoff(raw) ==
    \E t \in ContestStartOf(raw) : t < CUTOFF_TS

\* C14: with a cutoff, the eligibility set fetch_abc_contests (AtCoder) and
\* main.rs fetch_contests (Codeforces) return holds a contest of the list
\* exactly when it passes the category test and has a start timestamp
\* strictly below the cutoff.
C14_EligibleIffCategoryAndBeforeCutoff ==
    (Called /\ callee \in CutoffCallees /\ FetchedResult.ok)
        => FetchedResult.value =
              {ContestIdOf(raw) : raw \in {c \in RawItems(response) :
                                              InCategory(c) /\ StartsBeforeCutoff(c)}}

\* a contest list with an ABC contest that started before the cutoff, which
\* is in the set, and another that starts exactly at the cutoff, which is not
C14_Witness ==
    /\ Called
    /\ callee = "fetch_abc_contests"
    /\ FetchedResult.ok
    /\ \E a, b \in RawItems(response) :
          /\ InCategory(a) /\ InCategory(b)
          /\ a.start_epoch_second = Some(CUTOFF_TS - 1)
          /\ b.start_epoch_second = Some(CUTOFF_TS)
          /\ Unwrap(a.id) \in FetchedResult.value
          /\ Unwrap(b.id) \notin FetchedResult.value

\* the submissions of the response with the accepted verdict
AcceptedSubmissions == {sub \in RawItems(response) : sub.verdict = Some("OK")}

\* the identity of the problem of a submission of the response
IdentityOf(sub) == <<Unwrap(sub.problem.contestId), sub.problem.index>>

\* the single-shot builder has returned a set
SolvedSetBuilt == Called /\ callee = "fetch_user_submissions" /\ FetchedResult.ok

\* C15 as stated: the pairs built from what fetch_user_submissions returns are
\* exactly the identities of the problems with an accepted submission in the
\* response, whether or not the submission carries a rating.
C15_SolvedIsEveryAccepted ==
    SolvedSetBuilt
        => SolvedPairs(FetchedResult.value) = {IdentityOf(sub) : sub \in AcceptedSubmissions}

\* C15: the pairs built from what fetch_user_submissions returns are exactly
\* the identities of the problems with an accepted submission whose record
\* carries a rating.
C15_SolvedIsEveryAcceptedRated ==
    SolvedSetBuilt
        => SolvedPairs(FetchedResult.value) =
              {IdentityOf(sub) : sub \in {a \in AcceptedSubmissions : a.problem.rating # None}}

\* an accepted submission with a rating, its problem in the set
C15_Witness ==
    /\ SolvedSetBuilt
    /\ \E sub \in AcceptedSubmissions :
          /\ sub.problem.rating # None
          /\ IdentityOf(sub) \in SolvedPairs(FetchedResult.value)

\* an index selector has made its selection
IndexSelectionDone ==
    entry \in {"run_index", "run"} /\ pc = "done" /\ printed \in {"problem", "no_candidate"}

\* the problem is in an eligible contest and not solved
Open(p) == p.contest_id \in contests /\ ~InSolvedSet(p)

\* the first character of the index key is the letter, in either case
FirstCharIsLetter(p) ==
    IndexKeyOf(p) # <<>> /\ CaseInsensitiveEq(Head(IndexKeyOf(p)), Letter)

\* the index key is the letter and nothing more, in either case
KeyIsLetter(p) == Len(IndexKeyOf(p)) = 1 /\ CaseInsensitiveEq(IndexKeyOf(p)[1], Letter)

\* C16 as stated: in the Codeforces index selector and in the AtCoder selector
\* a problem whose index key begins with the letter satisfies the axis, whatever
\* follows: when an eligible unsolved problem of the catalog has such a key,
\* the selection returns a problem.
C16_FirstCharacterSuffices ==
    IndexSelectionDone
        => ((\E p \in Catalog : Open(p) /\ FirstCharIsLetter(p)) => Returned)

\* C16: the Codeforces index selector returns a problem exactly when an
\* eligible unsolved problem has an index key that begins with the letter; the
\* AtCoder selector returns one exactly when an eligible unsolved problem has
\* an index key that is the letter and nothing more.
C16_FirstCharacterOrWholeKey ==
    IndexSelectionDone
        => /\ entry = "run_index"
                => ((\E p \in Catalog : Open(p) /\ FirstCharIsLetter(p)) <=> Returned)
           /\ entry = "run"
                => ((\E p \in Catalog : Open(p) /\ KeyIsLetter(p)) <=> Returned)

\* AtCoder: an eligible unsolved problem with a longer key that begins with
\* the letter, and no problem selected
C16_Witness ==
    /\ IndexSelectionDone
    /\ entry = "run"
    /\ ~Returned
    /\ \E p \in Catalog : Open(p) /\ FirstCharIsLetter(p) /\ Len(IndexKeyOf(p)) > 1

\* fetch_user_submissions has returned its set
HistoryFetched == page_pc = "returned" /\ page_result = "Ok"

\* C17: against a server that answers a request at a cursor with at most a
\* page of the submissions from that time on, oldest first, the set
\* fetch_user_submissions returns holds the problem id of every "AC"
\* submission of the history, those that share the timestamp of the last
\* submission of a full page included.
C17_EveryAcceptedCollected ==
    HistoryFetched
        => \A i \in 1..Len(history) :
              history[i].result = "AC" => history[i].problem_id \in accepted

============================================================================
